---------------------------- MODULE Spec2Model ----------------------------
(***************************************************************************)
(* A state-machine model of the batch loops of pyroots                     *)
(* (src/pyroots/batch_processing.py): preprocessing_filter_loop,           *)
(* preprocessing_actions_loop, frangi_image_loop, pyroots_batch_loop,      *)
(* fishnet_loop and tennant_batch; and of preprocessing_actions and        *)
(* preprocessing_filters (preprocessing.py) and dirt_removal               *)
(* (noise_filters.py), each called on its own.                             *)
(*                                                                         *)
(* Paths and file names are sequences of one-symbol strings, so that the   *)
(* string operations of the source (endswith, the substring test `in`,     *)
(* os.path.join, os.path.splitext, slicing) are computed as Python         *)
(* computes them.  The symbols "D", "F" and "M" stand for the literals     *)
(* "DID NOT PASS", "FAILED PROCESSES" and "MISLOAD".                       *)
(***************************************************************************)
EXTENDS Integers, Sequences, FiniteSets, TLC

(***************************************************************************)
(* Bounds of the model.                                                    *)
(***************************************************************************)
\* largest pool size tried (threads / cores); 0 stands for threads=None
MaxThreads == 2
\* number of consecutive calls of the loop made by the caller
MaxRuns == 2
\* largest number of connected objects of an image given to dirt_removal
MaxObjects == 3
\* largest area of an object, in pixels
MaxArea == 3

(***************************************************************************)
(* State.                                                                  *)
(***************************************************************************)
VARIABLES
    arg,          \* the call: loop, threads, save_images, overwrite, params, dir_out,
                  \* extension_in, extension_out; the working directory and the tree
    glob,         \* the module globals written by exec(..., globals())
    dirs,         \* the directories that exist besides the input tree
    files,        \* the files that exist besides the input tree and the table
    table,        \* the result table file at table_out
    fate,         \* what reading and processing an input does (fixed by the unchanged tree)
    pc,           \* the position of the calling process in the loop function
    err,          \* the exception that ended the call, or "none"
    run,          \* the number of the current call
    d,            \* the index of the current directory of the os.walk pass
    total_files,  \* total_files
    ret,          \* the value returned to the caller
    pending,      \* the iterable handed to map / imap_unordered, not yet taken
    wk,           \* the workers of the pool: position, chunk, results of the chunk
    out,          \* out: the results collected so far
    excq,         \* an exception of a worker waits in the result queue
    hist,         \* per-call record of what happened to each input file
    snap,         \* the file system and the table as they were when the call began
    pa,           \* a call of preprocessing_actions: its arguments, position and locals
    pf,           \* a call of preprocessing_filters: its arguments, position and locals
    dr            \* a call of dirt_removal: its arguments, position and locals

cfgv == <<arg>>
envv == <<glob, dirs, files, table, fate>>
mainv == <<pc, err, run, d, total_files, ret>>
poolv == <<pending, wk, out, excq>>
histv == <<hist, snap>>
loopv == <<arg, glob, dirs, files, table, fate, pc, err, run, d, total_files, ret,
           pending, wk, out, excq, hist, snap>>
vars == <<arg, glob, dirs, files, table, fate, pc, err, run, d, total_files, ret,
          pending, wk, out, excq, hist, snap, pa, pf, dr>>

(***************************************************************************)
(* String helpers (Python str semantics on sequences of symbols).          *)
(***************************************************************************)
\* s.endswith(suf)
EndsWith(s, suf) ==
    /\ Len(suf) <= Len(s)
    /\ SubSeq(s, Len(s) - Len(suf) + 1, Len(s)) = suf

\* s.startswith(pre)
StartsWith(s, pre) ==
    /\ Len(pre) <= Len(s)
    /\ SubSeq(s, 1, Len(pre)) = pre

\* the substring test `sub in s`
IsIn(sub, s) ==
    \E k \in 0..(Len(s) - Len(sub)) : SubSeq(s, k + 1, k + Len(sub)) = sub

\* s[n:]
SliceFrom(s, n) == IF n >= Len(s) THEN << >> ELSE SubSeq(s, n + 1, Len(s))

\* os.path.join(a, b)
Join(a, b) ==
    IF b # << >> /\ Head(b) = "/" THEN b
    ELSE IF a = << >> \/ a[Len(a)] = "/" THEN a \o b
    ELSE a \o <<"/">> \o b

Join3(a, b, c) == Join(Join(a, b), c)

Join4(a, b, c, e) == Join(Join3(a, b, c), e)

\* position of the last "." of a file name that starts an extension, or 0
LastDot(s) ==
    LET dots == {k \in 2..Len(s) : s[k] = "." /\ \E j \in 1..(k - 1) : s[j] # "."}
    IN  IF dots = {} THEN 0 ELSE CHOOSE k \in dots : \A j \in dots : j <= k

\* os.path.splitext(name)[0]
SplitExtRoot(s) == IF LastDot(s) = 0 THEN s ELSE SubSeq(s, 1, LastDot(s) - 1)

\* the working directory of the process
cwd == arg.cwd

\* a path as the file system resolves it: a relative path starts at the
\* working directory, trailing separators do not count
Norm(p) ==
    LET q == IF p # << >> /\ Head(p) # "/" THEN Join(cwd, p) ELSE p
    IN  IF Len(q) > 1 /\ q[Len(q)] = "/" THEN SubSeq(q, 1, Len(q) - 1) ELSE q

\* os.path.split(p)[0] of a path that names a directory entry
Parent(p) ==
    LET q == Norm(p)
        seps == {k \in 1..Len(q) : q[k] = "/"}
        last == IF seps = {} THEN 0 ELSE CHOOSE k \in seps : \A j \in seps : j <= k
    IN  IF last <= 1 THEN SubSeq(q, 1, last) ELSE SubSeq(q, 1, last - 1)

(***************************************************************************)
(* The arguments of a call and the input tree.                             *)
(***************************************************************************)
dir_in == <<"/", "i">>
\* dir_out is an argument of the call
dir_out == arg.dir_out
\* the value None of an argument; "None" is a symbol of its own
None == <<"None">>
\* extension_in is an argument of the call
extension_in == arg.extension_in
\* extension_out is an argument of the call
extension_out == arg.extension_out
table_out == <<"/", "i", "/", "t">>

Loops == {"filter", "actions", "frangi", "pyroots", "fishnet", "tennant"}
DirLoops == {"filter", "actions", "frangi", "pyroots"}
SegLoops == {"frangi", "pyroots"}
TableLoops == {"frangi", "pyroots", "tennant"}

\* an input tree: the directories in the order os.walk yields them, each
\* with its list of file names
StdTree ==
    << [path |-> <<"/", "i">>,           files |-> << <<"n", ".", "q">> >>],
       [path |-> <<"/", "i", "/", "a">>, files |-> << <<"1", ".", "p">>, <<"2", ".", "p">> >>],
       [path |-> <<"/", "i", "/", "b">>, files |-> << <<"3", ".", "p">> >>] >>

\* an input tree with two images of the same base name
ClashTree ==
    << [path |-> <<"/", "i">>, files |-> << <<"1", ".", "p">>, <<"1", ".", "q", "p">> >>] >>

\* the tree below dir_in during the calls; the tree "gray" is StdTree with
\* an image of two dimensions
InputTree == IF arg.tree = "clash" THEN ClashTree ELSE StdTree

\* the images for which len(img.shape) != 3
GrayImages == IF arg.tree = "gray" THEN {<<"/", "i", "/", "a", "/", "2", ".", "p">>} ELSE {}

\* the directory the loops make for their output: dir_out, which
\* fishnet_loop joins to dir_in
OutRoot == Join(dir_in, dir_out)

\* the sub-directories a loop can create below OutRoot, in a fixed listing order
OutDirCandidates ==
    << OutRoot,
       Join(OutRoot, <<"a">>), Join(OutRoot, <<"b">>),
       Join(OutRoot, <<"D">>), Join3(OutRoot, <<"D">>, <<"a">>), Join3(OutRoot, <<"D">>, <<"b">>),
       Join(OutRoot, <<"F">>), Join3(OutRoot, <<"F">>, <<"a">>), Join3(OutRoot, <<"F">>, <<"b">>) >>

\* the file names an output directory can hold, in a fixed listing order
OutNameCandidates ==
    << <<"1", ".", "p">>, <<"2", ".", "p">>, <<"3", ".", "p">>,
       <<"M", "1", ".", "p">>, <<"M", "2", ".", "p">>, <<"M", "3", ".", "p">>,
       <<"f", ".", "c">> >>

InputDirs == {InputTree[k].path : k \in 1..Len(InputTree)}

InputFiles ==
    UNION {{Join(InputTree[k].path, InputTree[k].files[j]) : j \in 1..Len(InputTree[k].files)} :
        k \in 1..Len(InputTree)}

\* the input files whose name passes f.endswith(extension_in)
Matching == {f \in InputFiles : EndsWith(f, extension_in)}

(***************************************************************************)
(* The result table: a text file, a header line followed by row blocks.    *)
(* A line is a sequence of field names and delimiter symbols.              *)
(***************************************************************************)
TAB == "\\t"
COMMA == ","

Cols5 == <<"Time", "ImageName", "Length", "NObjects", "MeanDiam">>
Cols4 == <<"Time", "ImageName", "DiameterClass", "Length">>
colnames == <<"Image", "GridSize_px", "Crosses", "Length_px">>

RECURSIVE MkLine(_, _)
\* DataFrame(columns=fields).to_csv(sep=sep): the header line
MkLine(fields, sep) ==
    IF Len(fields) = 0 THEN << >>
    ELSE IF Len(fields) = 1 THEN <<fields[1]>>
    ELSE <<fields[1], sep>> \o MkLine(Tail(fields), sep)

RECURSIVE SplitLine(_, _)
\* the fields of a line read with delimiter sep; a field is the sequence of
\* symbols between two delimiters
SplitLine(line, sep) ==
    LET at == {k \in 1..Len(line) : line[k] = sep}
    IN  IF at = {} THEN <<line>>
        ELSE LET k == CHOOSE x \in at : \A y \in at : x <= y
             IN  <<SubSeq(line, 1, k - 1)>> \o SplitLine(SubSeq(line, k + 1, Len(line)), sep)

\* pd.read_table(table_out, sep=sep, nrows=1).columns.values; each column
\* name is the sequence of symbols of its field
ReadColumns(line, sep) == SplitLine(line, sep)

\* DataFrame(columns=fields).columns.values, in the same representation
ColumnValues(fields) == [k \in 1..Len(fields) |-> <<fields[k]>>]

\* the header lines a table found on disk before the first call may have
HeaderChoices ==
    { MkLine(Cols5, TAB), MkLine(Cols4, TAB), MkLine(colnames, COMMA),
      MkLine(<<"Time", "ImageName", "Length", "NObjects", "Other">>, TAB),
      MkLine(<<"Time", "ImageName", "Length", "DiameterClass">>, TAB),
      MkLine(<<"Image", "GridSize_px", "Length_px", "Crosses">>, COMMA),
      <<"Image">> }

NoTable == [exists |-> FALSE, header |-> << >>, rows |-> << >>]

(***************************************************************************)
(* The module globals that exec(open(params).read(), globals()) writes.    *)
(*   db   : diameter_bins                                                  *)
(*   seg  : the other arguments of the segmentation functions              *)
(*   filt : blur_params, temperature_params, low_contrast_params, center:  *)
(*          "def" all three dictionaries, "temp" temperature_params only   *)
(*   mbp  : make_brightfield_params                                        *)
(*   act  : brightfield_correction_params, smoothing_params,               *)
(*          registration_params                                            *)
(***************************************************************************)
FreshGlobals ==
    [db |-> "undef", seg |-> "undef", filt |-> "undef", mbp |-> "undef", act |-> "undef"]

\* globals left behind by earlier calls in the same Python process
StaleGlobals ==
    { [db |-> "bins", seg |-> "def", filt |-> "def", mbp |-> "none", act |-> "def"],
      [db |-> "none", seg |-> "undef", filt |-> "undef", mbp |-> "undef", act |-> "undef"] }


Workers == 1..MaxThreads

\* a pool that always has the largest number of processes
NWorkers_All == MaxThreads

\* a pool with one process more than asked for
NWorkers_OneMore == IF arg.threads = 0 THEN 1 ELSE arg.threads + 1

\* the number of processes that run _core_fn: map() runs it in the caller
NWorkers == IF arg.threads = 0 THEN 1 ELSE arg.threads

NoReturn == [kind |-> "none", rows |-> << >>]

IdleWorker == [pc |-> "idle", q |-> << >>, done |-> << >>]

NoHist ==
    [handed   |-> [f \in InputFiles |-> 0],
     outcome  |-> [f \in InputFiles |-> "none"],
     appended |-> << >>,
     written  |-> << >>,
     failMsgs |-> 0,
     reported |-> {},
     segmented |-> {},
     listed   |-> 0,
     submitted |-> 0,
     collected |-> 0,
     bar      |-> 0,
     stage    |-> "config"]

(***************************************************************************)
(* The file system.                                                        *)
(***************************************************************************)
\* os.path.exists(p)
ExistsIn(ds, fs, tbl, p) ==
    \/ Norm(p) \in ds \cup fs \cup InputDirs \cup InputFiles \cup {<<"/">>}
    \/ tbl.exists /\ Norm(p) = table_out

Exists(p) == ExistsIn(dirs, files, table, p)

IsDirIn(ds, p) == Norm(p) \in ds \cup InputDirs \cup {<<"/">>}

\* os.mkdir(p) succeeds when p is new and its parent is a directory
CanMkdir(ds, fs, tbl, p) == ~ExistsIn(ds, fs, tbl, p) /\ IsDirIn(ds, Parent(p))

\* the listing of an output directory
OutDirListing(p, fs) == SelectSeq(OutNameCandidates, LAMBDA n : Join(p, n) \in fs)

\* os.walk(dir_in): the input tree, then the output directories below dir_in
Walk(ds, fs) ==
    LET sel == SelectSeq(OutDirCandidates,
                         LAMBDA p : p \in ds /\ StartsWith(p, dir_in \o <<"/">>))
    IN  InputTree \o [k \in 1..Len(sel) |-> [path |-> sel[k], files |-> OutDirListing(sel[k], fs)]]

(***************************************************************************)
(* The configurations tried.                                               *)
(***************************************************************************)
\* the output directories tried: one below dir_in, one outside dir_in whose
\* name is part of the path of an input directory, and for fishnet_loop a
\* relative name like its default 'fishnet'; None ("to skip") for the
\* preprocessing loops
DirOutChoices(loop) ==
    IF loop \in {"filter", "actions"}
    THEN {<<"/", "i", "/", "o">>, <<"/", "a">>, None}
    ELSE IF loop = "fishnet"
    THEN {<<"/", "i", "/", "o">>, <<"/", "a">>, <<"o">>}
    ELSE {<<"/", "i", "/", "o">>}

\* the output extensions tried: the one of the input, and for fishnet_loop
\* another one
ExtensionOutChoices(loop) ==
    IF loop = "fishnet" THEN {<<".", "p">>, <<".", "q">>} ELSE {<<".", "p">>}

\* the working directories tried: they matter for a relative dir_out only
CwdChoices(o_dir) ==
    IF Head(o_dir) = "/" \/ o_dir = None THEN {<<"/">>} ELSE {<<"/">>, dir_in}

ThreadChoices(loop) == IF loop \in DirLoops THEN 0..MaxThreads ELSE 1..MaxThreads

ParamChoices(loop) ==
    IF loop \in SegLoops THEN {"none", "bad", "plain", "bins", "empty"}
    ELSE IF loop = "filter" THEN {"none", "bad", "plain", "empty", "temponly"}
    ELSE IF loop = "actions" THEN {"none", "bad", "plain", "empty", "partial"}
    ELSE {"none"}

FirstPhase(loop) ==
    IF loop \in DirLoops THEN "params"
    ELSE IF loop = "tennant" THEN "table"
    ELSE "count"

\* no call of preprocessing_actions is modelled on its own
NoCall ==
    [pos |-> "none", brightfield_correction_params |-> "skip", smoothing_params |-> "skip",
     registration_params |-> "skip", raises |-> {}, count_warnings |-> TRUE,
     out |-> << >>, warning_flag |-> 0, ret |-> << >>]

\* no call of preprocessing_filters is modelled on its own
NoFilterCall ==
    [pos |-> "none", blur_params |-> "None", temperature_params |-> "None",
     low_contrast_params |-> "None", center |-> TRUE, raises |-> {}, verdict |-> {},
     blur |-> "unset", bands |-> "unset", contrast |-> "unset", err |-> "none",
     ret |-> "none"]

\* no call of dirt_removal is modelled on its own
NoDirtCall ==
    [pos |-> "none", img |-> << >>, method |-> "threshold", param |-> 0,
     labels_ls |-> 0, area |-> << >>, keep_ID |-> {}, filt |-> {}]

\* the state of a process that has not called a loop yet
InitRest ==
    /\ files = {}
    /\ fate = [f \in InputFiles \cup InputDirs |-> "unknown"]
    /\ err = "none"
    /\ run = 1
    /\ d = 0
    /\ total_files = 0
    /\ ret = NoReturn
    /\ pending = << >>
    /\ wk = [w \in Workers |-> IdleWorker]
    /\ out = << >>
    /\ excq = "none"
    /\ hist = NoHist
    /\ snap = [dirs |-> dirs, files |-> files, table |-> table, prev |-> "first"]

Init ==
    /\ \E loop \in Loops :
       \E t \in ThreadChoices(loop), p \in ParamChoices(loop), o_dir \in DirOutChoices(loop) :
       \E c \in CwdChoices(o_dir), x \in ExtensionOutChoices(loop) :
       \E s \in (IF loop \in SegLoops THEN BOOLEAN ELSE {FALSE}) :
       \E o \in (IF loop \in TableLoops \cup {"fishnet"} THEN BOOLEAN ELSE {FALSE}) :
          /\ arg = [loop |-> loop, threads |-> t, save_images |-> s, overwrite |-> o,
                    params |-> p, dir_out |-> o_dir, cwd |-> c, extension_out |-> x,
                    extension_in |-> <<".", "p">>, tree |-> "std"]
          /\ dirs \in (IF loop \in DirLoops \cup {"fishnet"} /\ o_dir # None
                       THEN {{}, {Join(dir_in, o_dir)}} ELSE {{}})
          /\ pc = FirstPhase(loop)
          /\ glob \in (IF p \in {"none", "empty"} /\ loop \in DirLoops
                       THEN {FreshGlobals} \cup StaleGlobals ELSE {FreshGlobals})
          /\ table \in (IF loop \in TableLoops
                        THEN {NoTable} \cup
                             {[exists |-> TRUE, header |-> h, rows |-> << >>] : h \in HeaderChoices}
                        ELSE {NoTable})
    /\ InitRest
    /\ pa = NoCall
    /\ pf = NoFilterCall
    /\ dr = NoDirtCall

\* calls with the extension filter "p" over the tree whose two images share
\* their base name
InitClash ==
    /\ \E loop \in Loops :
       \E t \in ThreadChoices(loop) :
       \E o \in (IF loop = "fishnet" THEN BOOLEAN ELSE {FALSE}) :
          /\ arg = [loop |-> loop, threads |-> t, save_images |-> loop \in SegLoops,
                    overwrite |-> o,
                    params |-> (IF loop \in DirLoops THEN "plain" ELSE "none"),
                    dir_out |-> <<"/", "i", "/", "o">>, cwd |-> <<"/">>,
                    extension_out |-> <<".", "p">>,
                    extension_in |-> <<"p">>, tree |-> "clash"]
          /\ pc = FirstPhase(loop)
    /\ dirs = {}
    /\ glob = FreshGlobals
    /\ table = NoTable
    /\ InitRest
    /\ pa = NoCall
    /\ pf = NoFilterCall
    /\ dr = NoDirtCall


(***************************************************************************)
(* The calling process: parameters, table, counting.                       *)
(***************************************************************************)
\* the call ends with exception e
Raise(e) == pc' = "abort" /\ err' = e

\* exec(open(params).read(), globals()): the names the file of kind p
\* defines; a "partial" file defines make_brightfield_params only, a
\* "temponly" file gives a dictionary to temperature_params and None to
\* blur_params and low_contrast_params
ExecParams(loop, p, g) ==
    IF p = "partial" THEN [g EXCEPT !.mbp = "dict"]
    ELSE IF p = "temponly" THEN [g EXCEPT !.filt = "temp"]
    ELSE IF p \in {"plain", "bins"} THEN
        IF loop \in SegLoops
        THEN [g EXCEPT !.db = (IF p = "bins" THEN "bins" ELSE "none"), !.seg = "def"]
        ELSE IF loop = "filter" THEN [g EXCEPT !.filt = "def"]
        ELSE [g EXCEPT !.mbp = "dict", !.act = "def"]
    ELSE g

\* the loop over `dicts` that gives an absent name its default
DefaultParams(loop, g) ==
    IF loop = "actions"
    THEN [g EXCEPT !.mbp = (IF @ = "undef" THEN "skip" ELSE @),
                   !.act = (IF @ = "undef" THEN "skip" ELSE @)]
    ELSE IF loop = "frangi"
    THEN [g EXCEPT !.db = (IF @ = "undef" THEN "none" ELSE @),
                   !.seg = (IF @ = "undef" THEN "def" ELSE @)]
    ELSE IF loop = "pyroots"
    THEN [g EXCEPT !.db = (IF @ = "undef" THEN "skip" ELSE @),
                   !.seg = (IF @ = "undef" THEN "def" ELSE @)]
    ELSE g

\* the first statements of a per-directory loop: load the parameters file
LoadParams ==
    /\ pc = "params"
    /\ arg.loop \in DirLoops
    /\ IF arg.params = "bad"
       THEN /\ Raise("ValueError")
            /\ UNCHANGED glob
       ELSE /\ glob' = (IF arg.loop \in SegLoops /\ arg.params = "none"
                        THEN glob
                        ELSE DefaultParams(arg.loop, ExecParams(arg.loop, arg.params, glob)))
            /\ pc' = (IF arg.loop \in SegLoops THEN "table" ELSE "count")
            /\ UNCHANGED err
    /\ UNCHANGED <<pf, dr, pa, arg, dirs, files, table, fate, run, d, total_files, ret>>
    /\ UNCHANGED <<poolv, histv>>

\* the columns of the table this call writes
Schema(loop, g) ==
    IF loop = "tennant" THEN colnames
    ELSE IF loop = "pyroots" THEN (IF g.db \in {"none", "skip"} THEN Cols5 ELSE Cols4)
    ELSE (IF g.db = "none" THEN Cols5 ELSE Cols4)

HeaderSep(loop) == IF loop = "tennant" THEN COMMA ELSE TAB

RowSep(loop) == IF loop = "frangi" THEN TAB ELSE COMMA

\* sum(temp != df_out.columns.values), for arrays of equal length
CountDiff(temp, cols) == Cardinality({k \in 1..Len(cols) : temp[k] # cols[k]})

\* a compatibility test that compares the number of columns only
SegIncompatible_CountOnly(temp, cols) == Len(temp) # Len(cols)

\* the compatibility test of the segmentation loops raises
SegIncompatible(temp, cols) ==
    IF Len(temp) # Len(cols) THEN TRUE
    ELSE CountDiff(temp, cols) > 0

\* the compatibility test of tennant_batch raises: temp == colnames compares
\* element by element, broadcasts a single column, and fails outright for
\* any other length
TennantIncompatible(temp, cols) ==
    IF Len(temp) = Len(cols)
    THEN Cardinality({k \in 1..Len(cols) : temp[k] = cols[k]}) # Len(cols)
    ELSE IF Len(temp) = 1
    THEN Cardinality({k \in 1..Len(cols) : temp[1] = cols[k]}) # Len(cols)
    ELSE TRUE

Incompatible(loop, line, cols) ==
    IF loop = "tennant"
    THEN TennantIncompatible(ReadColumns(line, HeaderSep(loop)), ColumnValues(cols))
    ELSE SegIncompatible(ReadColumns(line, HeaderSep(loop)), ColumnValues(cols))

\* "Make and initiate table_out": create the table or check the one on disk
OpenTable ==
    /\ pc = "table"
    /\ arg.loop \in TableLoops
    /\ IF arg.loop \in SegLoops /\ glob.db = "undef"
       THEN /\ Raise("NameError")
            /\ UNCHANGED table
       ELSE LET cols == Schema(arg.loop, glob)
                new_table == ~table.exists \/ arg.overwrite
            IN  IF new_table
                THEN /\ table' = [exists |-> TRUE,
                                  header |-> MkLine(cols, HeaderSep(arg.loop)),
                                  rows |-> << >>]
                     /\ pc' = (IF arg.loop = "tennant" THEN "count" ELSE "outdir")
                     /\ UNCHANGED err
                ELSE IF Incompatible(arg.loop, table.header, cols)
                THEN /\ Raise("ValueError")
                     /\ UNCHANGED table
                ELSE /\ pc' = (IF arg.loop = "tennant" THEN "count" ELSE "outdir")
                     /\ UNCHANGED <<table, err>>
    /\ UNCHANGED <<pf, dr, pa, arg, glob, dirs, files, fate, run, d, total_files, ret>>
    /\ UNCHANGED <<poolv, histv>>

\* "Make an output directory for the analyzed images and data"
MakeOutDir ==
    /\ pc = "outdir"
    /\ arg.loop \in SegLoops
    /\ IF arg.save_images /\ ~Exists(dir_out)
       THEN IF CanMkdir(dirs, files, table, dir_out)
            THEN /\ dirs' = dirs \cup {Norm(dir_out)}
                 /\ pc' = "count"
                 /\ UNCHANGED err
            ELSE /\ Raise("OSError")
                 /\ UNCHANGED dirs
       ELSE /\ pc' = "count"
            /\ UNCHANGED <<dirs, err>>
    /\ UNCHANGED <<pf, dr, pa, arg, glob, files, table, fate, run, d, total_files, ret>>
    /\ UNCHANGED <<poolv, histv>>

\* the directory test of the counting pass skips this path
CountExcluded(loop, path) ==
    IF loop = "tennant" THEN FALSE
    ELSE IF loop = "fishnet" THEN ~(~IsIn(dir_out, path) \/ dir_out = dir_in)
    ELSE IsIn(dir_out, path)

\* the directory test of the dispatch pass skips this path
DispatchExcluded(loop, path) ==
    IF loop = "actions" THEN ~(~IsIn(dir_out, path) /\ ~IsIn(<<"F">>, path))
    ELSE CountExcluded(loop, path)

\* the positions of the matching file names of directory k of walk w
MatchingAt(w, k) == {j \in 1..Len(w[k].files) : EndsWith(w[k].files[j], extension_in)}

RECURSIVE SumCount(_, _, _)
\* total_files: the matching files of the directories the counting pass keeps
SumCount(loop, w, k) ==
    IF k = 0 THEN 0
    ELSE SumCount(loop, w, k - 1) +
         (IF CountExcluded(loop, w[k].path) THEN 0 ELSE Cardinality(MatchingAt(w, k)))

RECURSIVE IndexItems(_, _, _)
\* files_in / file_names of fishnet_loop and tennant_batch: one work item
\* per matching file, in walk order
IndexItems(loop, w, k) ==
    IF k = 0 THEN << >>
    ELSE IndexItems(loop, w, k - 1) \o
         (IF CountExcluded(loop, w[k].path) THEN << >>
          ELSE [j \in 1..Cardinality(MatchingAt(w, k)) |->
                   [path |-> w[k].path,
                    name |-> SelectSeq(w[k].files, LAMBDA f : EndsWith(f, extension_in))[j]]])

\* "Count files to analyze"; in the preprocessing loops the test
\* `dir_out not in path` of the first directory raises when dir_out is None
CountFiles ==
    /\ pc = "count"
    /\ LET w == Walk(dirs, files)
       IN  IF arg.loop \in {"filter", "actions"} /\ dir_out = None
           THEN /\ Raise("TypeError")
                /\ UNCHANGED <<total_files, d, pending>>
           ELSE /\ total_files' = SumCount(arg.loop, w, Len(w))
                /\ UNCHANGED err
                /\ IF arg.loop \in DirLoops
                   THEN /\ pc' = "walk"
                        /\ d' = 1
                        /\ UNCHANGED pending
                   ELSE /\ pc' = (IF arg.loop = "fishnet" THEN "fishprep" ELSE "pool")
                        /\ pending' = IndexItems(arg.loop, w, Len(w))
                        /\ UNCHANGED d
    /\ hist' = [hist EXCEPT !.stage = "scan", !.submitted = Len(pending')]
    /\ UNCHANGED <<pf, dr, pa, arg, envv, run, ret, wk, out, excq, snap>>


(***************************************************************************)
(* Work items and their paths.  An item carries the directory of the       *)
(* closure (_core_fn) it was handed to and the file name.                  *)
(***************************************************************************)
PathIn(it) == Join(it.path, it.name)

\* subpath = path[len(dir_in)+1:]
Subpath(it) == SliceFrom(it.path, Len(dir_in) + 1)

\* filename_out = os.path.splitext(filename)[0] + extension_out (the literal
\* ".png" in frangi_image_loop)
FilenameOut(it) == SplitExtRoot(it.name) \o extension_out

FailDir(loop) == IF loop = "filter" THEN <<"D">> ELSE <<"F">>

\* path_out / path_out_PASS; files_out[ix] in fishnet_loop
PathOutPASS(loop, it) ==
    IF loop = "fishnet" THEN Join3(dir_out, Subpath(it), it.name)
    ELSE Join3(dir_out, Subpath(it), FilenameOut(it))

\* path_out_FAIL
PathOutFAIL(loop, it) == Join4(dir_out, FailDir(loop), Subpath(it), FilenameOut(it))

\* path_out_FAIL after a failed load in preprocessing_filter_loop
PathOutMISLOAD(loop, it) ==
    Join4(dir_out, FailDir(loop), Subpath(it), <<"M">> \o FilenameOut(it))

\* a skip test that looks at the pass location only
ShouldSkipPre_PassOnly(loop, it) == Exists(PathOutPASS(loop, it))

\* "skip if already analyzed"
ShouldSkipPre(loop, it) == Exists(PathOutPASS(loop, it)) \/ Exists(PathOutFAIL(loop, it))

\* "if os.path.exists(path_out): #skip"
ShouldSkipSeg(loop, it) == Exists(PathOutPASS(loop, it))

ShouldSkip(loop, it) ==
    IF loop \in SegLoops THEN ShouldSkipSeg(loop, it) ELSE ShouldSkipPre(loop, it)

(***************************************************************************)
(* The dispatch pass of the per-directory loops.                           *)
(***************************************************************************)
\* the directories the loop makes for subpath sp, in order; each is made
\* only if the test in front of it finds it absent
MkdirPlan(loop, sp) ==
    IF loop = "filter"
    THEN IF ~Exists(Join(dir_out, sp))
         THEN <<Join(dir_out, sp), Join3(dir_out, <<"D">>, sp)>>
         ELSE << >>
    ELSE IF loop = "actions"
    THEN (IF ~Exists(Join(dir_out, sp)) THEN <<Join(dir_out, sp)>> ELSE << >>) \o
         (IF ~Exists(Join3(dir_out, <<"F">>, sp)) THEN <<Join3(dir_out, <<"F">>, sp)>> ELSE << >>)
    ELSE IF ~Exists(Join(dir_out, sp)) THEN <<Join(dir_out, sp)>> ELSE << >>

RECURSIVE MkdirAll(_, _)
\* os.mkdir of each path of plan in turn, stopping at the first that raises
MkdirAll(ds, plan) ==
    IF plan = << >> THEN [dirs |-> ds, ok |-> TRUE]
    ELSE IF CanMkdir(ds, files, table, Head(plan))
    THEN MkdirAll(ds \cup {Norm(Head(plan))}, Tail(plan))
    ELSE [dirs |-> ds, ok |-> FALSE]

\* the pool (or map) of one directory starts on its file list
StartPool(path, names) ==
    /\ pending' = [j \in 1..Len(names) |-> [path |-> path, name |-> names[j]]]
    /\ out' = (IF arg.loop \in SegLoops THEN out ELSE << >>)
    /\ pc' = "pool"
    /\ UNCHANGED <<d, err>>

\* one iteration of "for path, folder, filename in os.walk(dir_in)"
NextDir ==
    /\ pc = "walk"
    /\ arg.loop \in DirLoops
    /\ LET w == Walk(dirs, files)
       IN  IF d > Len(w)
           THEN /\ pc' = "finish"
                /\ UNCHANGED <<d, err, dirs, fate, pending, out>>
           ELSE IF DispatchExcluded(arg.loop, w[d].path)
           THEN /\ d' = d + 1
                /\ UNCHANGED <<pc, err, dirs, fate, pending, out>>
           ELSE LET sp == SliceFrom(w[d].path, Len(dir_in) + 1)
                    made == MkdirAll(dirs, MkdirPlan(arg.loop, sp))
                IN  /\ dirs' = made.dirs
                    /\ IF ~made.ok
                       THEN /\ Raise("OSError")
                            /\ UNCHANGED <<d, fate, pending, out>>
                       ELSE IF arg.loop # "actions" \/ glob.mbp = "none"
                       THEN /\ StartPool(w[d].path, w[d].files)
                            /\ UNCHANGED fate
                       ELSE IF glob.mbp = "skip"
                       THEN /\ Raise("TypeError")
                            /\ UNCHANGED <<d, fate, pending, out>>
                       ELSE \E b \in (IF fate[w[d].path] = "unknown" THEN {"ok", "raise"}
                                      ELSE {fate[w[d].path]}) :
                            /\ fate' = [fate EXCEPT ![w[d].path] = b]
                            /\ IF b = "ok"
                               THEN StartPool(w[d].path, w[d].files)
                               ELSE /\ d' = d + 1
                                    /\ UNCHANGED <<pc, err, pending, out>>
    /\ hist' = [hist EXCEPT !.submitted = @ + (IF pc' = "pool" THEN Len(pending') ELSE 0),
                             !.bar = (IF pc' = "pool" THEN 0 ELSE @)]
    /\ UNCHANGED <<pf, dr, pa, arg, glob, files, table, run, total_files, ret, wk, excq, snap>>

RECURSIVE DistinctSubpaths(_)
\* subpaths: the sub-directories of the items, each once, in order
DistinctSubpaths(items) ==
    IF items = << >> THEN << >>
    ELSE LET rest == DistinctSubpaths(SubSeq(items, 1, Len(items) - 1))
             sp == Subpath(items[Len(items)])
         IN  IF \E k \in 1..Len(rest) : rest[k] = sp THEN rest ELSE Append(rest, sp)

RECURSIVE MkdirMissing(_, _)
\* "if not os.path.exists(p): os.mkdir(p)" for each path of plan in turn
MkdirMissing(ds, plan) ==
    IF plan = << >> THEN [dirs |-> ds, ok |-> TRUE]
    ELSE IF ExistsIn(ds, files, table, Head(plan))
    THEN MkdirMissing(ds, Tail(plan))
    ELSE IF CanMkdir(ds, files, table, Head(plan))
    THEN MkdirMissing(ds \cup {Norm(Head(plan))}, Tail(plan))
    ELSE [dirs |-> ds, ok |-> FALSE]

\* fishnet_loop: make the output directories and write fishnet_images.csv
FishnetPrepare ==
    /\ pc = "fishprep"
    /\ arg.loop = "fishnet"
    /\ LET sps == DistinctSubpaths(pending)
           plan == <<Join(dir_in, dir_out)>> \o
                   [k \in 1..Len(sps) |-> Join3(dir_in, dir_out, sps[k])]
           made == MkdirMissing(dirs, plan)
       IN  /\ dirs' = made.dirs
           /\ IF made.ok
              THEN /\ files' = files \cup {Join3(dir_in, dir_out, <<"f", ".", "c">>)}
                   /\ pc' = "pool"
                   /\ UNCHANGED err
              ELSE /\ Raise("OSError")
                   /\ UNCHANGED files
    /\ UNCHANGED <<pf, dr, pa, arg, glob, table, fate, run, d, total_files, ret, poolv, histv>>


(***************************************************************************)
(* The pool and _core_fn.                                                  *)
(***************************************************************************)
Min(a, b) == IF a <= b THEN a ELSE b

\* the cap of "chunks = min(5, int(total_files/2*threads) + 1)"
MaxChunk == 5

\* the chunksize given to imap_unordered; map() takes one item at a time
ChunkSize ==
    IF arg.threads = 0 THEN 1
    ELSE IF arg.loop \in {"filter", "frangi"}
    THEN Min(MaxChunk, (total_files * arg.threads) \div 2 + 1)
    ELSE 1

\* a worker takes the next chunk of the iterable
TakeChunk(w) ==
    /\ pc = "pool"
    /\ w <= NWorkers
    /\ wk[w].pc = "idle"
    /\ pending # << >>
    /\ LET n == Min(ChunkSize, Len(pending))
       IN  /\ wk' = [wk EXCEPT ![w] = [pc |-> "begin", q |-> SubSeq(pending, 1, n), done |-> << >>]]
           /\ pending' = SubSeq(pending, n + 1, Len(pending))
    /\ UNCHANGED <<pf, dr, pa, arg, envv, mainv, out, excq, histv>>

\* _core_fn returns val for the head of the chunk; the results of a chunk
\* reach `out` when the chunk is complete
FinishItem(w, val, h) ==
    LET done2 == Append(wk[w].done, val)
        q2 == Tail(wk[w].q)
    IN  /\ IF q2 = << >>
           THEN /\ wk' = [wk EXCEPT ![w] = IdleWorker]
                /\ out' = out \o done2
                /\ hist' = [h EXCEPT !.collected = @ + Len(done2), !.bar = @ + Len(done2)]
           ELSE /\ wk' = [wk EXCEPT ![w] = [pc |-> "begin", q |-> q2, done |-> done2]]
                /\ hist' = h
                /\ UNCHANGED out
        /\ UNCHANGED <<pc, err, excq>>

\* _core_fn raises e: map() raises in the caller at once; in a pool the
\* exception replaces the result of the whole chunk and waits for the caller
RaiseItem(w, e, h) ==
    /\ hist' = h
    /\ wk' = [wk EXCEPT ![w] = IdleWorker]
    /\ IF arg.threads = 0
       THEN /\ Raise(e)
            /\ UNCHANGED excq
       ELSE /\ excq' = (IF excq = "none" THEN e ELSE excq)
            /\ UNCHANGED <<pc, err>>
    /\ UNCHANGED out

Result(it, v) == [item |-> PathIn(it), val |-> v]

\* _core_fn up to the branch "skip if already analyzed"
CoreFnBegin(w) ==
    /\ pc = "pool"
    /\ wk[w].pc = "begin"
    /\ LET it == Head(wk[w].q)
           f == PathIn(it)
           h1 == [hist EXCEPT !.handed[f] = @ + 1]
       IN  IF arg.loop \in DirLoops /\ ~EndsWith(it.name, extension_in)
           THEN FinishItem(w, Result(it, "None"), h1)
           ELSE IF arg.loop \in DirLoops /\ ShouldSkip(arg.loop, it)
           THEN FinishItem(w, Result(it, IF arg.loop \in SegLoops THEN "None" ELSE "True"),
                           [h1 EXCEPT !.outcome[f] = "skipped"])
           ELSE /\ wk' = [wk EXCEPT ![w].pc = "proc"]
                /\ hist' = h1
                /\ UNCHANGED <<pc, err, excq, out>>
    /\ UNCHANGED <<pf, dr, pa, arg, envv, run, d, total_files, ret, pending, snap>>

\* what reading and processing input f can do under the loop; in
\* preprocessing_filter_loop an image that cannot be read is replaced by
\* np.ones((30, 30, 3)), which the blur check fails (0/0 is no ratio between
\* 1/ratio and ratio) and which passes or fails the temperature check
FateChoices(loop, f) ==
    IF fate[f] # "unknown" THEN {fate[f]}
    ELSE IF loop \in SegLoops
    THEN (IF glob.seg = "undef" THEN {"unknown"}
          ELSE IF f \in GrayImages THEN {"gray_ok", "gray_raise"}
          ELSE {"ok", "raise", "append_raise"})
    ELSE IF loop = "filter"
    THEN (IF glob.filt = "undef" THEN {"unknown"}
          ELSE IF glob.filt = "temp"
          THEN {"ok", "degraded", "raise", "misload_ok", "misload_degraded"}
          ELSE {"ok", "degraded", "raise", "misload_degraded"})
    ELSE IF loop = "actions"
    THEN (IF glob.act = "skip" THEN {"ok", "raise"} ELSE {"ok", "degraded", "raise"})
    ELSE {"ok", "raise"}

\* an except branch that records the failure without reporting it
CaughtFailure_Silent(h, f) == [h EXCEPT !.outcome[f] = "failed"]

\* the except branch of the segmentation loops
CaughtFailure(h, f) ==
    [h EXCEPT !.outcome[f] = "failed",
              !.failMsgs = (IF arg.params = "none" THEN @ ELSE @ + 1),
              !.listed = (IF arg.params = "none" THEN @ + 1 ELSE @)]

\* the statements of the segmentation loops between io.imread and the call
\* of the segmentation function: an image of two dimensions is reported
\* ("is not a color image! Skipping...", in pyroots_batch_loop when colors
\* has three entries), and the next statement calls the segmentation
\* function, whose arguments are evaluated first
Segmenting(loop, f, x, h) ==
    [h EXCEPT !.reported = (IF f \in GrayImages /\ (loop = "frangi" \/ glob.seg # "undef")
                            THEN @ \cup {f} ELSE @),
              !.segmented = (IF glob.seg # "undef" /\ x # "raise" THEN @ \cup {f} ELSE @)]

\* _core_fn: load the image and run the algorithm on it
CoreFnProc(w) ==
    /\ pc = "pool"
    /\ wk[w].pc = "proc"
    /\ LET it == Head(wk[w].q)
           f == PathIn(it)
       IN  \E x \in FateChoices(arg.loop, f) :
           /\ fate' = [fate EXCEPT ![f] = x]
           /\ IF arg.loop \in SegLoops
              THEN LET h1 == Segmenting(arg.loop, f, x, hist)
                   IN  IF glob.seg = "undef" \/ x \in {"raise", "gray_raise"}
                       THEN FinishItem(w, Result(it, "None"), CaughtFailure(h1, f))
                       ELSE /\ wk' = [wk EXCEPT ![w].pc = (IF arg.save_images THEN "save" ELSE "append")]
                            /\ hist' = h1
                            /\ UNCHANGED <<pc, err, excq, out>>
              ELSE IF arg.loop = "filter"
              THEN IF glob.filt = "undef" \/ x = "raise"
                   THEN RaiseItem(w, "NameError", [hist EXCEPT !.outcome[f] = "exc"])
                   ELSE /\ wk' = [wk EXCEPT ![w].pc = "save"]
                        /\ UNCHANGED <<pc, err, excq, out, hist>>
              ELSE IF arg.loop = "actions"
              THEN IF x = "raise"
                   THEN FinishItem(w, Result(it, "None"), [hist EXCEPT !.outcome[f] = "failed"])
                   ELSE /\ wk' = [wk EXCEPT ![w].pc = "save"]
                        /\ UNCHANGED <<pc, err, excq, out, hist>>
              ELSE IF x = "raise"
              THEN RaiseItem(w, "IOError", [hist EXCEPT !.outcome[f] = "exc"])
              ELSE IF arg.loop = "tennant"
              THEN /\ wk' = [wk EXCEPT ![w].pc = "append"]
                   /\ UNCHANGED <<pc, err, excq, out, hist>>
              ELSE IF ~Exists(PathOutPASS(arg.loop, it)) \/ arg.overwrite
              THEN /\ wk' = [wk EXCEPT ![w].pc = "save"]
                   /\ UNCHANGED <<pc, err, excq, out, hist>>
              ELSE FinishItem(w, Result(it, "None"), [hist EXCEPT !.outcome[f] = "skipped"])
    /\ UNCHANGED <<pf, dr, pa, arg, glob, dirs, files, table, run, d, total_files, ret, pending, snap>>

\* every artifact goes to the pass path
SaveTarget_AlwaysPass(loop, it) == PathOutPASS(loop, it)

\* the path io.imsave writes for the head item
SaveTarget(loop, it) ==
    IF loop = "filter" /\ fate[PathIn(it)] = "degraded" THEN PathOutFAIL(loop, it)
    ELSE IF loop = "filter" /\ fate[PathIn(it)] = "misload_degraded" THEN PathOutMISLOAD(loop, it)
    ELSE IF loop = "actions" /\ fate[PathIn(it)] = "degraded" THEN PathOutFAIL(loop, it)
    ELSE PathOutPASS(loop, it)

\* _core_fn: io.imsave
CoreFnSave(w) ==
    /\ pc = "pool"
    /\ wk[w].pc = "save"
    /\ LET it == Head(wk[w].q)
           f == PathIn(it)
           target == SaveTarget(arg.loop, it)
       IN  IF ~IsDirIn(dirs, Parent(target))
           THEN /\ UNCHANGED files
                /\ IF arg.loop \in SegLoops
                   THEN FinishItem(w, Result(it, "None"), CaughtFailure(hist, f))
                   ELSE RaiseItem(w, "OSError", [hist EXCEPT !.outcome[f] = "exc"])
           ELSE /\ files' = files \cup {Norm(target)}
                /\ LET h1 == [hist EXCEPT !.written = Append(@, target)]
                   IN  IF arg.loop \in SegLoops
                       THEN /\ wk' = [wk EXCEPT ![w].pc = "append"]
                            /\ hist' = h1
                            /\ UNCHANGED <<pc, err, excq, out>>
                       ELSE FinishItem(w,
                                Result(it, IF arg.loop = "fishnet" THEN "None" ELSE "True"),
                                [h1 EXCEPT !.outcome[f] =
                                    (IF target = PathOutPASS(arg.loop, it) THEN "success"
                                     ELSE "degraded")])
    /\ UNCHANGED <<pf, dr, pa, arg, glob, dirs, table, fate, run, d, total_files, ret, pending, snap>>

\* _core_fn: to_csv(table_out, mode='a') opens the table for appending
CoreFnAppendOpen(w) ==
    /\ pc = "pool"
    /\ wk[w].pc = "append"
    /\ wk' = [wk EXCEPT ![w].pc = "writing"]
    /\ UNCHANGED <<pf, dr, pa, arg, envv, mainv, pending, out, excq, histv>>

\* grid_size is an argument of tennant_batch
grid_size == 10

\* tennant_on_segmented(image, grid_size): the crosses counted on the images
\* of the tree
ImageCrosses(name) ==
    IF name = <<"1", ".", "p">> THEN 0
    ELSE IF name = <<"2", ".", "p">> THEN 23
    ELSE 7

\* tennant_length = (11/14)*grid_size*crosses, as the fraction num/den
TennantLength(g, crosses) == [num |-> 11 * g * crosses, den |-> 14]

\* the data of temp_out, a column name with each value
TennantData(it) ==
    [Image |-> Join(Subpath(it), it.name),
     GridSize_px |-> grid_size,
     Crosses |-> ImageCrosses(it.name),
     Length_px |-> TennantLength(grid_size, ImageCrosses(it.name))]

\* temp_out[colnames]: the fields of the row of an image, each with the name
\* of its column, in the order of colnames
TennantValues(it) ==
    [k \in 1..Len(colnames) |-> [col |-> colnames[k], val |-> TennantData(it)[colnames[k]]]]

\* the row block of an image: its name, delimiter, field count and time
\* stamp (the number of the call; tennant_batch writes no time column); torn
\* marks a block cut short by the death of its writer
Row(loop, it) ==
    [img |-> Join(Subpath(it), it.name), sep |-> RowSep(loop),
     n |-> Len(Schema(loop, glob)), run |-> (IF loop = "tennant" THEN 0 ELSE run),
     torn |-> FALSE,
     vals |-> (IF loop = "tennant" THEN TennantValues(it) ELSE << >>)]

\* a file opened with mode 'w' holds the new block only
AppendRows_Truncate(rows, r) == <<r>>

\* a block written in front of the rows on disk
AppendRows_Front(rows, r) == <<r>> \o rows

\* to_csv(table_out, mode='a'): the block goes to the end of the file
AppendRows(rows, r) == Append(rows, r)

\* _core_fn: to_csv writes the row block and closes the table, or raises
\* inside the try block; _core_fn returns
CoreFnAppendWrite(w) ==
    /\ pc = "pool"
    /\ wk[w].pc = "writing"
    /\ LET it == Head(wk[w].q)
           f == PathIn(it)
       IN  IF arg.loop \in SegLoops /\ fate[f] = "append_raise"
           THEN /\ UNCHANGED table
                /\ FinishItem(w, Result(it, "None"), CaughtFailure(hist, f))
           ELSE /\ table' = [table EXCEPT !.exists = TRUE,
                                          !.rows = AppendRows(@, Row(arg.loop, it))]
                /\ FinishItem(w, Result(it, "df"),
                              [hist EXCEPT !.outcome[f] = "success",
                                           !.appended = Append(@, Row(arg.loop, it))])
    /\ UNCHANGED <<pf, dr, pa, arg, glob, dirs, files, fate, run, d, total_files, ret, pending, snap>>

\* a caller that goes on to the next directory as soon as every item of
\* this one is handed out
PoolJoin_Early ==
    /\ pc = "pool"
    /\ pending = << >>
    /\ excq = "none"
    /\ IF arg.loop \in DirLoops
       THEN /\ d' = d + 1
            /\ pc' = "walk"
       ELSE /\ pc' = "finish"
            /\ UNCHANGED d
    /\ UNCHANGED <<pf, dr, pa, arg, envv, err, run, total_files, ret, poolv, histv>>

\* the caller has drained the pool: close, join, next directory
PoolJoin ==
    /\ pc = "pool"
    /\ pending = << >>
    /\ \A w \in Workers : wk[w].pc = "idle"
    /\ excq = "none"
    /\ IF arg.loop \in DirLoops
       THEN /\ d' = d + 1
            /\ pc' = "walk"
       ELSE /\ pc' = "finish"
            /\ UNCHANGED d
    /\ UNCHANGED <<pf, dr, pa, arg, envv, err, run, total_files, ret, poolv, histv>>

\* the caller meets the exception of a worker while iterating the results
PoolRaise ==
    /\ pc = "pool"
    /\ excq # "none"
    /\ Raise(excq)
    /\ UNCHANGED <<pf, dr, pa, arg, envv, run, d, total_files, ret, poolv, histv>>

\* the row blocks among the collected results
Frames(o) == SelectSeq(o, LAMBDA r : r.val = "df")

\* the statements after the loop
Finish ==
    /\ pc = "finish"
    /\ IF arg.loop = "filter"
       THEN /\ Raise("KeyError")
            /\ UNCHANGED ret
       ELSE IF arg.loop \in {"actions", "fishnet"}
       THEN /\ pc' = "done"
            /\ ret' = [kind |-> "str", rows |-> << >>]
            /\ UNCHANGED err
       ELSE IF Frames(out) = << >>
       THEN /\ Raise("ValueError")
            /\ UNCHANGED ret
       ELSE IF arg.loop = "frangi"
       THEN /\ Raise("KeyError")
            /\ UNCHANGED ret
       ELSE /\ pc' = "done"
            /\ ret' = [kind |-> "rows", rows |-> Frames(out)]
            /\ UNCHANGED err
    /\ hist' = [hist EXCEPT !.stage = "end"]
    /\ UNCHANGED <<pf, dr, pa, arg, envv, run, d, total_files, poolv, snap>>

\* the blocks left in the table by the writers in T that die while writing
TornRows(T) ==
    LET ws == SelectSeq([w \in 1..MaxThreads |-> w], LAMBDA w : w \in T)
    IN  [k \in 1..Len(ws) |-> [Row(arg.loop, Head(wk[ws[k]].q)) EXCEPT !.torn = TRUE]]

\* the processes of the call die (kill, power loss); a writer that dies
\* inside to_csv leaves nothing or a part of its block
Crash ==
    /\ pc \notin {"done", "abort", "crashed"}
    /\ pc' = "crashed"
    /\ \E T \in SUBSET {w \in Workers : wk[w].pc = "writing"} :
          table' = [table EXCEPT !.rows = @ \o TornRows(T)]
    /\ UNCHANGED <<pf, dr, pa, arg, glob, dirs, files, fate, err, run, d, total_files, ret>>
    /\ UNCHANGED <<poolv, histv>>

\* the caller calls the loop again with the same arguments
StartRun ==
    /\ pc \in {"done", "abort"}
    /\ run < MaxRuns
    /\ run' = run + 1
    /\ pc' = FirstPhase(arg.loop)
    /\ err' = "none"
    /\ d' = 0
    /\ total_files' = 0
    /\ ret' = NoReturn
    /\ pending' = << >>
    /\ wk' = [w \in Workers |-> IdleWorker]
    /\ out' = << >>
    /\ excq' = "none"
    /\ hist' = NoHist
    /\ snap' = [dirs |-> dirs, files |-> files, table |-> table, prev |-> pc]
    /\ UNCHANGED <<pf, dr, pa, arg, envv>>

Next ==
    \/ LoadParams
    \/ OpenTable
    \/ MakeOutDir
    \/ CountFiles
    \/ NextDir
    \/ FishnetPrepare
    \/ \E w \in Workers : TakeChunk(w)
    \/ \E w \in Workers : CoreFnBegin(w)
    \/ \E w \in Workers : CoreFnProc(w)
    \/ \E w \in Workers : CoreFnSave(w)
    \/ \E w \in Workers : CoreFnAppendOpen(w)
    \/ \E w \in Workers : CoreFnAppendWrite(w)
    \/ PoolJoin
    \/ PoolRaise
    \/ Finish
    \/ Crash
    \/ StartRun

Spec == Init /\ [][Next]_vars

SpecClash == InitClash /\ [][Next]_vars

(***************************************************************************)
(* pyroots_batch_loop with save_images=True, called again after a call     *)
(* that was interrupted.                                                   *)
(***************************************************************************)
InitRerun ==
    /\ \E t \in ThreadChoices("pyroots"), p \in {"plain", "bins"} :
          arg = [loop |-> "pyroots", threads |-> t, save_images |-> TRUE, overwrite |-> FALSE,
                 params |-> p, dir_out |-> <<"/", "i", "/", "o">>, cwd |-> <<"/">>,
                 extension_out |-> <<".", "p">>, extension_in |-> <<".", "p">>, tree |-> "std"]
    /\ pc = FirstPhase("pyroots")
    /\ dirs \in {{}, {<<"/", "i", "/", "o">>}}
    /\ glob = FreshGlobals
    /\ table = NoTable
    /\ InitRest
    /\ pa = NoCall
    /\ pf = NoFilterCall
    /\ dr = NoDirtCall

\* the caller calls the loop again after the processes of the last call died
Restart ==
    /\ pc = "crashed"
    /\ run < MaxRuns
    /\ run' = run + 1
    /\ pc' = FirstPhase(arg.loop)
    /\ err' = "none"
    /\ d' = 0
    /\ total_files' = 0
    /\ ret' = NoReturn
    /\ pending' = << >>
    /\ wk' = [w \in Workers |-> IdleWorker]
    /\ out' = << >>
    /\ excq' = "none"
    /\ hist' = NoHist
    /\ snap' = [dirs |-> dirs, files |-> files, table |-> table, prev |-> pc]
    /\ UNCHANGED <<pf, dr, pa, arg, envv>>

NextRerun ==
    \/ LoadParams
    \/ OpenTable
    \/ MakeOutDir
    \/ CountFiles
    \/ NextDir
    \/ \E w \in Workers : TakeChunk(w)
    \/ \E w \in Workers : CoreFnBegin(w)
    \/ \E w \in Workers : CoreFnProc(w)
    \/ \E w \in Workers : CoreFnSave(w)
    \/ \E w \in Workers : CoreFnAppendOpen(w)
    \/ \E w \in Workers : CoreFnAppendWrite(w)
    \/ PoolJoin
    \/ Finish
    \/ Crash
    \/ StartRun
    \/ Restart

SpecRerun == InitRerun /\ [][NextRerun]_vars

\* calls of the segmentation loops over a tree that holds an image of two
\* dimensions
InitGray ==
    /\ \E loop \in SegLoops :
       \E t \in ThreadChoices(loop), p \in {"plain", "bins"}, s \in BOOLEAN :
          /\ arg = [loop |-> loop, threads |-> t, save_images |-> s, overwrite |-> FALSE,
                    params |-> p, dir_out |-> <<"/", "i", "/", "o">>, cwd |-> <<"/">>,
                    extension_out |-> <<".", "p">>, extension_in |-> <<".", "p">>,
                    tree |-> "gray"]
          /\ pc = FirstPhase(loop)
    /\ dirs = {}
    /\ glob = FreshGlobals
    /\ table = NoTable
    /\ InitRest
    /\ pa = NoCall
    /\ pf = NoFilterCall
    /\ dr = NoDirtCall

SpecGray == InitGray /\ [][NextRerun]_vars

(***************************************************************************)
(* preprocessing_actions (src/pyroots/preprocessing.py), on its own.       *)
(* The image is the sequence of the sub-stages applied to it so far.       *)
(***************************************************************************)
Stages == {"brightfield", "smoothing", "registration"}

\* the values tried for a parameters argument: the default 'skip', None, or
\* a dictionary
StageParamChoices == {"skip", "None", "dict"}

\* the call f(out, **params) of sub-stage st raises: 'skip' and None are no
\* mappings, and with a dictionary the function itself may raise
StageRaises(st, params) == params \in {"skip", "None"} \/ st \in pa.raises

\* an except branch that counts every failure
StageWarns_Always(params) == TRUE

\* the test "params is not 'skip'" of an except branch
StageWarns(params) == params # "skip"

\* no batch loop is running
NoLoop ==
    /\ arg = [loop |-> "actions", threads |-> 0, save_images |-> FALSE, overwrite |-> FALSE,
              params |-> "none", dir_out |-> <<"/", "i", "/", "o">>, cwd |-> <<"/">>,
              extension_out |-> <<".", "p">>, extension_in |-> <<".", "p">>, tree |-> "std"]
    /\ pc = "done"
    /\ dirs = {}
    /\ glob = FreshGlobals
    /\ table = NoTable
    /\ InitRest

InitPA ==
    /\ NoLoop
    /\ pf = NoFilterCall
    /\ dr = NoDirtCall
    /\ \E b \in StageParamChoices, s \in StageParamChoices, r \in StageParamChoices :
       \E R \in SUBSET Stages, c \in BOOLEAN :
          pa = [pos |-> "brightfield", brightfield_correction_params |-> b,
                smoothing_params |-> s, registration_params |-> r, raises |-> R,
                count_warnings |-> c, out |-> << >>, warning_flag |-> 0, ret |-> << >>]

\* one try/except block of preprocessing_actions
StageStep(st, params, next) ==
    /\ pa.pos = st
    /\ pa' = IF StageRaises(st, params)
             THEN [pa EXCEPT !.pos = next,
                             !.warning_flag = (IF StageWarns(params) THEN @ + 1 ELSE @)]
             ELSE [pa EXCEPT !.pos = next, !.out = Append(@, st)]
    /\ UNCHANGED <<loopv, pf, dr>>

\* out = correct_brightfield(out, brightfield, **brightfield_correction_params)
PA_Brightfield == StageStep("brightfield", pa.brightfield_correction_params, "smoothing")

\* out = cv2.bilateralFilter(out, -1, **smoothing_params)
PA_Smoothing == StageStep("smoothing", pa.smoothing_params, "registration")

\* out = register_bands(out, **registration_params)
PA_Registration == StageStep("registration", pa.registration_params, "return")

\* "if count_warnings == True: out = [out, warning_flag]"; return(out)
PA_Return ==
    /\ pa.pos = "return"
    /\ pa' = [pa EXCEPT !.pos = "returned",
                        !.ret = (IF pa.count_warnings THEN <<pa.out, pa.warning_flag>>
                                 ELSE <<pa.out>>)]
    /\ UNCHANGED <<loopv, pf, dr>>

NextPA ==
    \/ PA_Brightfield
    \/ PA_Smoothing
    \/ PA_Registration
    \/ PA_Return

SpecPA == InitPA /\ [][NextPA]_vars


(***************************************************************************)
(* preprocessing_filters (src/pyroots/preprocessing.py), on its own.       *)
(* Truth values are the integers Python multiplies: True is 1, False is 0. *)
(***************************************************************************)
Criteria == {"blur", "temperature", "contrast"}

\* the values tried for blur_params and low_contrast_params: the default
\* None, or a dictionary
CriterionParamChoices == {"None", "dict"}

\* the values tried for temperature_params: None, a dictionary with a number
\* for max_distance, or a dictionary with max_distance None
TemperatureParamChoices == {"None", "dict", "dict_nomax"}

\* the distance calc_temperature_distance returns when max_distance is None:
\* a number that is neither True nor False
DistValue == 2

\* the call f(image, **params) of criterion c raises: None is no mapping,
\* and with a dictionary the function itself may raise
CriterionRaises(c, params) == params = "None" \/ c \in pf.raises

\* detect_motion_blur(...): out = True / False
BlurValue == IF "blur" \in pf.verdict THEN 1 ELSE 0

\* calc_temperature_distance(...): dist < max_distance, or dist
TemperatureValue ==
    IF pf.temperature_params = "dict_nomax" THEN DistValue
    ELSE IF "temperature" \in pf.verdict THEN 1 ELSE 0

\* ~exposure.is_low_contrast(...)
ContrastValue == IF "contrast" \in pf.verdict THEN 1 ELSE 0

InitPF ==
    /\ NoLoop
    /\ pa = NoCall
    /\ dr = NoDirtCall
    /\ \E b \in CriterionParamChoices, t \in TemperatureParamChoices,
          l \in CriterionParamChoices :
       \E c \in BOOLEAN, R \in SUBSET Criteria, V \in SUBSET Criteria :
          pf = [pos |-> "blur", blur_params |-> b, temperature_params |-> t,
                low_contrast_params |-> l, center |-> c, raises |-> R, verdict |-> V,
                blur |-> "unset", bands |-> "unset", contrast |-> "unset",
                err |-> "none", ret |-> "none"]

\* the first try/except block: the motion blur check, on the centre of the
\* image or on the whole image
PF_Blur ==
    /\ pf.pos = "blur"
    /\ pf' = [pf EXCEPT !.pos = "temperature",
                        !.blur = (IF CriterionRaises("blur", pf.blur_params) THEN 1
                                  ELSE BlurValue)]
    /\ UNCHANGED <<loopv, pa, dr>>

\* the second try/except block: the temperature check; its except branch
\* reads the name missing_band_params, which nothing defines
PF_Temperature ==
    /\ pf.pos = "temperature"
    /\ pf' = IF CriterionRaises("temperature", pf.temperature_params)
             THEN [pf EXCEPT !.pos = "raised", !.bands = 1, !.err = "NameError"]
             ELSE [pf EXCEPT !.pos = "contrast", !.bands = TemperatureValue]
    /\ UNCHANGED <<loopv, pa, dr>>

\* the third try/except block: the low contrast check
PF_Contrast ==
    /\ pf.pos = "contrast"
    /\ pf' = [pf EXCEPT !.pos = "return",
                        !.contrast = (IF CriterionRaises("contrast", pf.low_contrast_params)
                                      THEN 1 ELSE ContrastValue)]
    /\ UNCHANGED <<loopv, pa, dr>>

\* return(blur * bands * contrast)
PF_Return ==
    /\ pf.pos = "return"
    /\ pf' = [pf EXCEPT !.pos = "returned", !.ret = pf.blur * pf.bands * pf.contrast]
    /\ UNCHANGED <<loopv, pa, dr>>

NextPF ==
    \/ PF_Blur
    \/ PF_Temperature
    \/ PF_Contrast
    \/ PF_Return

SpecPF == InitPF /\ [][NextPF]_vars


(***************************************************************************)
(* dirt_removal (src/pyroots/noise_filters.py) with method "threshold", on *)
(* its own.  A binary image is the sequence of the areas of its connected  *)
(* objects in the order ndimage.label numbers them: object k has label k,  *)
(* the background has label 0.                                             *)
(***************************************************************************)
\* the images tried: every number of objects up to MaxObjects, every
\* assignment of areas
ImageChoices == UNION {[1..n -> 1..MaxArea] : n \in 0..MaxObjects}

\* the values tried for param
DirtParamChoices == 0..(MaxArea - 1)

\* ndimage.sum(img, labels=labels, index=i): the number of pixels of img
\* that are set and have label i; none for the background
LabelSum(img, i) == IF i = 0 THEN 0 ELSE img[i]

\* range(n)
Range(n) == [k \in 1..n |-> k - 1]

InitDR ==
    /\ NoLoop
    /\ pa = NoCall
    /\ pf = NoFilterCall
    /\ \E i \in ImageChoices, p \in DirtParamChoices :
          dr = [pos |-> "label", img |-> i, method |-> "threshold", param |-> p,
                labels_ls |-> 0, area |-> << >>, keep_ID |-> {}, filt |-> {}]

\* labels, labels_ls = ndimage.label(img)
DR_Label ==
    /\ dr.pos = "label"
    /\ dr' = [dr EXCEPT !.pos = "area", !.labels_ls = Len(dr.img)]
    /\ UNCHANGED <<loopv, pa, pf>>

\* area = ndimage.sum(img, labels=labels, index=range(labels_ls))
DR_Area ==
    /\ dr.pos = "area"
    /\ dr' = [dr EXCEPT !.pos = "filter",
                        !.area = [k \in 1..dr.labels_ls |->
                                     LabelSum(dr.img, Range(dr.labels_ls)[k])]]
    /\ UNCHANGED <<loopv, pa, pf>>

\* area_filt = area > param; keep_ID = [i for i, x in enumerate(area_filt)
\* if x == True]
DR_Filter ==
    /\ dr.pos = "filter"
    /\ dr.method = "threshold"
    /\ dr' = [dr EXCEPT !.pos = "return",
                        !.keep_ID = {k - 1 : k \in {j \in 1..Len(dr.area) : dr.area[j] > dr.param}}]
    /\ UNCHANGED <<loopv, pa, pf>>

\* filt = np.in1d(labels, keep_ID), reshaped: the labels whose pixels are
\* set in the result
DR_Return ==
    /\ dr.pos = "return"
    /\ dr' = [dr EXCEPT !.pos = "returned",
                        !.filt = {l \in 0..dr.labels_ls : l \in dr.keep_ID}]
    /\ UNCHANGED <<loopv, pa, pf>>

NextDR ==
    \/ DR_Label
    \/ DR_Area
    \/ DR_Filter
    \/ DR_Return

SpecDR == InitDR /\ [][NextDR]_vars


(***************************************************************************)
(* Properties.                                                             *)
(***************************************************************************)
\* the work item of an input file
ItemOf(f) ==
    CHOOSE it \in {[path |-> InputTree[k].path, name |-> n] :
                      k \in 1..Len(InputTree), n \in UNION {{InputTree[j].files[i] :
                          i \in 1..Len(InputTree[j].files)} : j \in 1..Len(InputTree)}} :
        PathIn(it) = f

\* the image name a row carries for input file f
ImageName(f) == SliceFrom(f, Len(dir_in) + 1)

\* the number of row blocks the current call appended for input file f
RowCount(f) ==
    Cardinality({k \in 1..Len(table.rows) :
        table.rows[k].img = ImageName(f) /\ table.rows[k].run = (IF arg.loop = "tennant" THEN 0 ELSE run)})

\* the dispatch pass of the current call has run to its end
LoopCompleted == pc = "finish" \/ hist.stage = "end"

\* C1: in every batch loop, within one call every matching, not excluded
\* input file is handed to _core_fn exactly once and has exactly one terminal
\* outcome (success, skipped or failed) when the call ends: none is handled
\* twice and none is left without an outcome.
C1_ExactlyOnce ==
    /\ \A f \in InputFiles : hist.handed[f] <= 1
    /\ (hist.stage # "config" /\ pc \in {"done", "abort"}) =>
          \A f \in Matching :
              /\ hist.handed[f] = 1
              /\ hist.outcome[f] \in {"success", "degraded", "skipped", "failed"}

\* C2: fault isolation in pyroots_batch_loop and frangi_image_loop, for a call
\* with a parameters file: no error of an item leaves _core_fn, and when the
\* dispatch pass is over and exactly one of the matching, not skipped items
\* failed, every other one succeeded and has exactly one row block of this call
\* in the table, the failed one has none, and exactly one failure was reported.
C2_FaultIsolation ==
    (arg.loop \in SegLoops /\ arg.params # "none") =>
        /\ excq = "none"
        /\ \A f \in InputFiles : hist.outcome[f] # "exc"
        /\ LoopCompleted =>
              LET failed == {f \in Matching : hist.outcome[f] = "failed"}
                  todo == {f \in Matching : hist.outcome[f] # "skipped"}
              IN  Cardinality(failed) = 1 =>
                     /\ \A f \in todo \ failed : hist.outcome[f] = "success" /\ RowCount(f) = 1
                     /\ \A f \in failed : RowCount(f) = 0
                     /\ hist.failMsgs = 1

\* a completed dispatch pass with three items to do, of which exactly one failed
C2_Witness ==
    /\ arg.loop \in SegLoops
    /\ arg.params # "none"
    /\ pc = "finish"
    /\ Cardinality({f \in Matching : hist.outcome[f] = "failed"}) = 1
    /\ Cardinality({f \in Matching : hist.outcome[f] = "success" /\ RowCount(f) = 1}) = 2
    /\ hist.failMsgs = 1

\* C3: in every batch loop an error raised while reading or processing an item
\* never leaves _core_fn towards the caller: no item ends with a propagated
\* exception and no exception waits in the result queue of the pool.
C3_NoPropagation ==
    /\ excq = "none"
    /\ \A f \in InputFiles : hist.outcome[f] # "exc"

\* the rows of a table as a set
RowSet(t) == {t.rows[k] : k \in 1..Len(t.rows)}

\* C4: idempotency: a second call with the same arguments over the unchanged
\* tree, after a first call that returned and in which every matching item
\* was processed without error, and without overwriting the table, leaves the
\* same set of rows in the table, writes no artifact and skips every matching
\* item.
C4_Idempotent ==
    (/\ run > 1
     /\ snap.prev = "done"
     /\ ~arg.overwrite
     /\ \A f \in Matching : fate[f] = "ok") =>
        /\ RowSet(table) = RowSet(snap.table)
        /\ hist.written = << >>
        /\ \A f \in Matching : hist.outcome[f] \in {"none", "skipped"}

\* the existence test the skip decision of a loop rests on: the output path,
\* and the failure path in the loops that have a failure bucket
ArtifactExists(loop, it) ==
    \/ Exists(PathOutPASS(loop, it))
    \/ loop \in {"filter", "actions"} /\ Exists(PathOutFAIL(loop, it))

\* C5: in the per-directory loops, whenever _core_fn decides about a matching
\* item, it skips the item exactly when a file exists at the item's output
\* path or at its failure path at that moment; nothing else enters the
\* decision.
C5_SkipOnlyOnExistence ==
    [][\A w \in Workers :
          (/\ arg.loop \in DirLoops
           /\ pc = "pool"
           /\ wk[w].pc = "begin"
           /\ wk'[w] # wk[w]
           /\ EndsWith(Head(wk[w].q).name, extension_in)) =>
              ((hist'.outcome[PathIn(Head(wk[w].q))] = "skipped")
                  <=> ArtifactExists(arg.loop, Head(wk[w].q)))]_vars

\* an item of preprocessing_filter_loop skipped because of its failure artifact
\* alone
C5_Witness ==
    \E f \in Matching :
        /\ arg.loop = "filter"
        /\ hist.outcome[f] = "skipped"
        /\ PathOutFAIL(arg.loop, ItemOf(f)) \in files
        /\ PathOutPASS(arg.loop, ItemOf(f)) \notin files

\* the table found by the current call does not have the columns the call writes
SchemaMismatch ==
    /\ arg.loop \in TableLoops
    /\ snap.table.exists
    /\ ~arg.overwrite
    /\ SplitLine(snap.table.header, HeaderSep(arg.loop)) # ColumnValues(Schema(arg.loop, glob))

\* C6: schema guard: when the table exists, overwrite is false and its header
\* differs from the columns of the call in count or in a name at any position,
\* the call ends with an error before anything is counted or dispatched and
\* before any directory or file is created; the table is unchanged.
C6_SchemaGuard ==
    (SchemaMismatch /\ pc \notin {"params", "table"}) =>
        /\ pc \in {"abort", "crashed"}
        /\ hist = NoHist
        /\ total_files = 0
        /\ pending = << >>
        /\ dirs = snap.dirs
        /\ files = snap.files
        /\ table = snap.table

\* a call stopped by a header with the right number of columns and a wrong name
C6_Witness ==
    /\ SchemaMismatch
    /\ arg.params \notin {"bad", "none"}
    /\ Len(SplitLine(snap.table.header, HeaderSep(arg.loop))) = Len(Schema(arg.loop, glob))
    /\ pc = "abort"
    /\ err = "ValueError"

\* C7: at every moment at most one worker has the table open for appending.
C7_SingleWriter == Cardinality({w \in Workers : wk[w].pc = "writing"}) <= 1

\* C8: once the parameters are loaded and the table is validated, a call never
\* ends with an error.
C8_NoAbortAfterValidation == hist.stage # "config" => pc # "abort"

\* C9: when pyroots_batch_loop, frangi_image_loop or tennant_batch has executed
\* its last statements, it has returned a collection holding exactly the row
\* blocks this call appended to the table (an empty one when it appended none).
C9_ReturnsAppendedRows ==
    (arg.loop \in TableLoops /\ hist.stage = "end") =>
        /\ pc = "done"
        /\ ret.kind = "rows"
        /\ Len(ret.rows) = Len(hist.appended)
        /\ {ImageName(ret.rows[k].item) : k \in 1..Len(ret.rows)} =
              {hist.appended[k].img : k \in 1..Len(hist.appended)}

\* C10: exactly-once accounting: when the dispatch pass is over, the number
\* of outcomes collected from the pools equals the number of items submitted
\* and the number of matching input files.
C10_Accounting ==
    pc = "finish" =>
        /\ hist.collected = hist.submitted
        /\ hist.collected = Cardinality(Matching)

\* C11: in every batch loop, when the dispatch pass is over, total_files (the
\* result of the counting pass) equals the number of matching files the
\* dispatch pass handed to _core_fn.
C11_CountMatchesDispatch ==
    pc = "finish" =>
        total_files = Cardinality({f \in Matching : hist.handed[f] = 1})

\* C12: the progress counter of a call (the n of the tqdm bar that wraps
\* the results) never decreases or restarts within the call, and when the
\* dispatch pass is over it equals total_files and the number of matching
\* items that completed.
C12_Progress ==
    [][/\ run' = run => hist'.bar >= hist.bar
       /\ pc' = "finish" =>
             /\ hist'.bar = total_files'
             /\ hist'.bar = Cardinality({f \in Matching : hist'.outcome[f] # "none"})]_vars

RECURSIVE FileOrder(_)
\* the input files of the first k directories in enumeration order: os.walk
\* order, and within a directory the order of its file list
FileOrder(k) ==
    IF k = 0 THEN << >>
    ELSE FileOrder(k - 1) \o
         [j \in 1..Len(InputTree[k].files) |-> Join(InputTree[k].path, InputTree[k].files[j])]

\* the position of input file f in the enumeration
EnumIndex(f) ==
    CHOOSE k \in 1..Len(FileOrder(Len(InputTree))) : FileOrder(Len(InputTree))[k] = f

\* the number of row blocks the current call appended for input file f
AppendedCount(f) ==
    Cardinality({k \in 1..Len(hist.appended) : hist.appended[k].img = ImageName(f)})

\* a call with parallelism 1 that takes the items strictly in enumeration
\* order appends a row block for f: f is processed without error, is not
\* skipped, and (tennant_batch, where an error ends the call) no earlier item
\* raises
SeqAppends(f) ==
    /\ fate[f] = "ok"
    /\ arg.loop \in SegLoops => PathOutPASS(arg.loop, ItemOf(f)) \notin snap.files
    /\ arg.loop = "tennant" =>
          \A g \in Matching : EnumIndex(g) < EnumIndex(f) => fate[g] = "ok"

\* C13: order independence: when a call of a loop with a result table has
\* ended, whatever its parallelism and the order in which its workers ran, the
\* multiset of row blocks it appended (ignoring the time stamp) is the one a
\* call with parallelism 1 appends for the same inputs.
C13_OrderIndependence ==
    (/\ arg.loop \in TableLoops
     /\ hist.stage = "end" \/ (pc = "abort" /\ hist.stage = "scan")
     /\ \A f \in Matching : fate[f] # "unknown") =>
        \A f \in Matching : AppendedCount(f) = (IF SeqAppends(f) THEN 1 ELSE 0)

\* the complete row blocks of a table
IntactRows(t) == SelectSeq(t.rows, LAMBDA r : ~r.torn)

\* the blocks of a table cut short by the death of their writer
TornBlocks(t) == SelectSeq(t.rows, LAMBDA r : r.torn)

\* C14: when the processes of a call die at any point, every row block whose
\* append completed before (in this call, and the blocks the call found in
\* the table it did not overwrite) is in the table, unchanged, in the order
\* of the appends; only blocks that were being written at that moment are
\* missing or incomplete, and those lie after all complete blocks.
C14_CrashDurability ==
    pc = "crashed" =>
        LET intact == IntactRows(table)
            n == Len(intact) - Len(hist.appended)
        IN  /\ n >= 0
            /\ SubSeq(intact, n + 1, Len(intact)) = hist.appended
            /\ SubSeq(intact, 1, n) \in {snap.table.rows, << >>}
            /\ ~arg.overwrite => SubSeq(intact, 1, n) = snap.table.rows
            /\ table.rows = intact \o TornBlocks(table)
            /\ Len(TornBlocks(table)) <= Cardinality({w \in Workers : wk[w].pc = "writing"})

\* a second call that found rows, appended one more, and died while another
\* worker was writing, leaving a part of that block
C14_Witness ==
    /\ pc = "crashed"
    /\ ~arg.overwrite
    /\ Len(snap.table.rows) >= 1
    /\ Len(hist.appended) >= 1
    /\ Len(TornBlocks(table)) = 1

\* directory p is root or lies below root
IsUnder(p, root) == p = root \/ StartsWith(p, root \o <<"/">>)

\* directory p is dir_out, the failure subtree of the loop, or below one of them
UnderOut(loop, p) == IsUnder(p, dir_out) \/ IsUnder(p, Join(dir_out, FailDir(loop)))

\* C15: the items enumerated for dispatch are exactly the matching files of
\* the directories that are not dir_out, the failure subtree or below them:
\* the dispatch pass skips every directory under dir_out or the failure
\* subtree, and when it is over every matching file of any other directory
\* (whose brightfield image, in preprocessing_actions_loop, could be made) has
\* been handed to _core_fn.
C15_EnumeratedSet ==
    /\ \A k \in 1..Len(Walk(dirs, files)) :
          (arg.loop # "tennant" /\ UnderOut(arg.loop, Walk(dirs, files)[k].path)) =>
              DispatchExcluded(arg.loop, Walk(dirs, files)[k].path)
    /\ pc = "finish" =>
          \A f \in Matching :
              (~UnderOut(arg.loop, Parent(f)) /\ fate[Parent(f)] # "raise") =>
                  hist.handed[f] = 1

\* the item at the head of the chunk of worker w is being processed
Processing(w) == wk[w].pc \in {"proc", "save", "append", "writing"}

\* C16: in the per-directory loops, making the output directories of a
\* sub-directory never raises, and while an item is being processed the
\* directory of its sub-directory exists under dir_out and, in the loops with
\* a failure bucket, under the failure root.
C16_MirroredDirs ==
    arg.loop \in DirLoops =>
        /\ err # "OSError"
        /\ \A w \in Workers :
              (pc = "pool" /\ Processing(w)) =>
                  /\ IsDirIn(dirs, Join(dir_out, Subpath(Head(wk[w].q))))
                  /\ arg.loop \in {"filter", "actions"} =>
                        IsDirIn(dirs, Join3(dir_out, FailDir(arg.loop), Subpath(Head(wk[w].q))))

C18_FailedLeavesNothing ==
    arg.loop \in SegLoops =>
        /\ excq = "none"
        /\ \A f \in Matching :
              hist.outcome[f] = "failed" =>
                  /\ PathOutPASS(arg.loop, ItemOf(f)) \notin files
                  /\ RowCount(f) = 0

\* input file f is being processed by some worker
InFlight(f) == \E w \in Workers : Processing(w) /\ PathIn(Head(wk[w].q)) = f

\* the position in the enumeration of the input file a row block belongs to
RowIndex(r) == EnumIndex(CHOOSE f \in InputFiles : ImageName(f) = r.img)

\* C19: with threads None or 1, items are processed one at a time in
\* enumeration order: at most one worker is busy, a file is handed to
\* _core_fn only when every file handed before it comes earlier in the
\* enumeration and is no longer being processed, and each row block appended
\* belongs to a later file than all blocks appended before it in the call.
C19_Sequential ==
    [][arg.threads \in {0, 1} =>
          /\ Cardinality({w \in Workers : wk[w].pc # "idle"}) <= 1
          /\ \A g \in InputFiles :
                (hist.handed[g] = 0 /\ hist'.handed[g] = 1) =>
                    \A f \in InputFiles \ {g} :
                        hist.handed[f] = 1 => (EnumIndex(f) < EnumIndex(g) /\ ~InFlight(f))
          /\ Len(hist'.appended) = Len(hist.appended) + 1 =>
                \A k \in 1..Len(hist.appended) :
                    RowIndex(hist.appended[k]) < RowIndex(hist'.appended[Len(hist'.appended)])]_vars

\* a call with threads None or 1 that appended the row blocks of all three
\* matching files
C19_Witness ==
    /\ arg.threads \in {0, 1}
    /\ pc = "finish"
    /\ Len(hist.appended) = 3
    /\ \A f \in Matching : hist.handed[f] = 1

\* sequence a is an initial part of sequence b
IsPrefix(a, b) == Len(a) <= Len(b) /\ SubSeq(b, 1, Len(a)) = a

\* C20: opening the result table: when overwrite is true or the file is
\* absent (and the columns of the call are defined), the table becomes the
\* header of the call and no rows; otherwise opening leaves the file as it
\* is; and every other step of a call leaves the header and all rows on disk
\* in place and adds new row blocks only after them.
C20_OpenAndAppend ==
    [][IF pc = "table" /\ pc' \in {"outdir", "count"}
       THEN IF arg.overwrite \/ ~table.exists
            THEN table' = [exists |-> TRUE,
                           header |-> MkLine(Schema(arg.loop, glob), HeaderSep(arg.loop)),
                           rows |-> << >>]
            ELSE table' = table
       ELSE /\ table'.header = table.header
            /\ table.exists => table'.exists
            /\ IsPrefix(table.rows, table'.rows)]_vars

\* a second call that kept the rows it found and appended one after them
C20_Witness ==
    /\ arg.loop \in TableLoops
    /\ ~arg.overwrite
    /\ run > 1
    /\ Len(snap.table.rows) >= 1
    /\ Len(hist.appended) >= 1
    /\ table.rows = snap.table.rows \o hist.appended

\* the text line of row block r: its n fields joined by its delimiter
RowLine(r) == MkLine([k \in 1..r.n |-> "v"], r.sep)

\* the delimiter of a header line
HeaderDelimiter(line) ==
    IF \E k \in 1..Len(line) : line[k] = TAB THEN TAB ELSE COMMA

\* C21: within one call of a loop with a result table, the header line and
\* every row block the call appended use the same delimiter: each row line,
\* split on the delimiter of the header, has as many fields as the header.
C21_UniformDelimiter ==
    arg.loop \in TableLoops =>
        \A k \in 1..Len(hist.appended) :
            Len(SplitLine(RowLine(hist.appended[k]), HeaderDelimiter(table.header))) =
                Len(SplitLine(table.header, HeaderDelimiter(table.header)))

\* the location the artifact of an item belongs at: below the output root,
\* in the sub-directory of the item, the base name of the input with the
\* output extension
ExpectedOut(it) == Join3(OutRoot, Subpath(it), SplitExtRoot(it.name) \o extension_out)

\* C22: in every loop that writes artifacts, fishnet_loop included, the
\* artifact of an item goes to root_out/subpath/<base name><extension_out>,
\* inside the mirrored directory the loop made for the sub-directory: the
\* path an item is about to write in the pass bucket lies in that directory,
\* which exists, and an item that ended with its artifact written has the
\* file at that location.
C22_ArtifactLocation ==
    /\ \A w \in Workers :
          (/\ pc = "pool"
           /\ wk[w].pc = "save"
           /\ SaveTarget(arg.loop, Head(wk[w].q)) = PathOutPASS(arg.loop, Head(wk[w].q))) =>
              /\ Parent(SaveTarget(arg.loop, Head(wk[w].q))) =
                    Norm(Join(OutRoot, Subpath(Head(wk[w].q))))
              /\ IsDirIn(dirs, Join(OutRoot, Subpath(Head(wk[w].q))))
    /\ \A f \in Matching :
          (/\ hist.outcome[f] = "success"
           /\ arg.loop # "tennant"
           /\ arg.loop \in SegLoops => arg.save_images) =>
              Norm(ExpectedOut(ItemOf(f))) \in files

\* the artifact of an item is on disk where the loop looks for it
OutputExists(loop, it) ==
    IF loop = "fishnet" THEN Exists(PathOutPASS(loop, it)) ELSE ArtifactExists(loop, it)

\* C23: in every loop that writes artifacts, fishnet_loop included, when
\* _core_fn is entered for a matching item whose output artifact exists (and,
\* in fishnet_loop, overwrite is false), it goes on to no load and no
\* processing step: the item ends as skipped at once.
C23_SkipWithoutRead ==
    [][\A w \in Workers :
          (/\ arg.loop # "tennant"
           /\ pc = "pool"
           /\ wk[w].pc = "begin"
           /\ wk'[w] # wk[w]
           /\ EndsWith(Head(wk[w].q).name, extension_in)
           /\ OutputExists(arg.loop, Head(wk[w].q))
           /\ arg.loop = "fishnet" => ~arg.overwrite) =>
              /\ wk'[w].pc # "proc"
              /\ hist'.outcome[PathIn(Head(wk[w].q))] = "skipped"]_vars

\* C24: in preprocessing_actions_loop, a sub-stage dictionary the parameters
\* file does not define (it gets the default 'skip') is passed through: no
\* error ends the call because of it, no item is counted as degraded when the
\* three sub-stages of preprocessing_actions are all left out, and when the
\* dispatch pass is over every matching file of every directory the loop does
\* not exclude has been handed to _core_fn.
C24_MissingIsPassThrough ==
    (/\ arg.loop = "actions"
     /\ dir_out # None
     /\ pc # "params"
     /\ glob.mbp = "skip" \/ glob.act = "skip") =>
        /\ err # "TypeError"
        /\ glob.act = "skip" => \A f \in Matching : hist.outcome[f] # "degraded"
        /\ pc = "finish" =>
              \A f \in Matching :
                  (~DispatchExcluded(arg.loop, Parent(f)) /\ fate[Parent(f)] # "raise") =>
                      hist.handed[f] = 1

\* the artifact of item it was on disk when the call began
OutputExistedAtStart(loop, it) ==
    \/ Norm(PathOutPASS(loop, it)) \in snap.files
    \/ loop \in {"filter", "actions"} /\ Norm(PathOutFAIL(loop, it)) \in snap.files

\* C25: within a call, two distinct matching input files never share an
\* output path or a failure path, whatever the extension filter: no path is
\* written by more than one item of the call, and an item is skipped only
\* for an artifact that was on disk when the call began, never for one that
\* another item of the same call wrote.
C25_PathsPartitioned ==
    /\ \A j, k \in 1..Len(hist.written) : j # k => hist.written[j] # hist.written[k]
    /\ \A f \in Matching :
          hist.outcome[f] = "skipped" => OutputExistedAtStart(arg.loop, ItemOf(f))
    /\ \A f, g \in Matching :
          (f # g /\ arg.loop # "tennant") =>
              /\ Norm(PathOutPASS(arg.loop, ItemOf(f))) # Norm(PathOutPASS(arg.loop, ItemOf(g)))
              /\ arg.loop \in {"filter", "actions"} =>
                    PathOutFAIL(arg.loop, ItemOf(f)) # PathOutFAIL(arg.loop, ItemOf(g))

\* C26: a call of pyroots_batch_loop or frangi_image_loop with params=None is
\* a dry run, also after an earlier call with a parameters file in the same
\* process: it does not end with an undefined name, it segments no image,
\* appends no row block and writes no artifact, and when the dispatch pass is
\* over it has listed the path of every matching image.
C26_DryRun ==
    (arg.loop \in SegLoops /\ arg.params = "none") =>
        /\ err # "NameError"
        /\ hist.appended = << >>
        /\ hist.written = << >>
        /\ table.rows = snap.table.rows \/ table.rows = << >>
        /\ \A f \in Matching : hist.outcome[f] # "success"
        /\ pc = "finish" => hist.listed = Cardinality(Matching)

\* C27: preprocessing_filter_loop and preprocessing_actions_loop take
\* dir_out=None as "skip writing": the call does not end with an error
\* because of it, it writes no file and makes no directory, and when it has
\* executed its last statements every matching image has been handed to
\* _core_fn and the call has returned.
C27_NoneSkipsWriting ==
    (arg.loop \in {"filter", "actions"} /\ dir_out = None) =>
        /\ err # "TypeError"
        /\ files = snap.files
        /\ dirs = snap.dirs
        /\ hist.stage = "end" =>
              /\ pc = "done"
              /\ \A f \in Matching : hist.handed[f] = 1

\* the paths the current call wrote, as the file system resolves them
WrittenSet == {Norm(hist.written[k]) : k \in 1..Len(hist.written)}

\* the output file of input file f in fishnet_loop
FishnetOut(f) == Norm(PathOutPASS("fishnet", ItemOf(f)))

\* C28: in fishnet_loop (in_place false), with overwrite false a call never
\* writes an output file that was on disk when it began; and when the call
\* has ended, every image it enumerated has its output file on disk: written
\* by this call when it was missing, and written again by this call when it
\* was there and overwrite is true.
C28_FishnetOverwrite ==
    arg.loop = "fishnet" =>
        /\ ~arg.overwrite => WrittenSet \cap snap.files = {}
        /\ (pc \in {"done", "abort"} /\ hist.stage # "config") =>
              \A f \in Matching :
                  ~CountExcluded(arg.loop, Parent(f)) =>
                      /\ FishnetOut(f) \in files
                      /\ FishnetOut(f) \notin snap.files => FishnetOut(f) \in WrittenSet
                      /\ (arg.overwrite /\ FishnetOut(f) \in snap.files) =>
                            FishnetOut(f) \in WrittenSet

\* C29: tennant_batch appends exactly one row per matching image: when a
\* call has ended, every matching image has one row block of the call; and
\* each row block has the fields Image, GridSize_px, Crosses, Length_px in
\* this order, with 14 * Length_px = 11 * grid_size * Crosses.
C29_TennantRows ==
    arg.loop = "tennant" =>
        /\ (pc \in {"done", "abort"} /\ hist.stage # "config") =>
              \A f \in Matching : AppendedCount(f) = 1
        /\ \A k \in 1..Len(hist.appended) :
              LET v == hist.appended[k].vals
              IN  /\ [j \in 1..Len(v) |-> v[j].col] =
                        <<"Image", "GridSize_px", "Crosses", "Length_px">>
                  /\ v[1].val = hist.appended[k].img
                  /\ v[2].val = grid_size
                  /\ 14 * v[4].val.num = 11 * grid_size * v[3].val * v[4].val.den

\* the parameters given for sub-stage st in the current call
ParamsOf(st) ==
    IF st = "brightfield" THEN pa.brightfield_correction_params
    ELSE IF st = "smoothing" THEN pa.smoothing_params
    ELSE pa.registration_params

\* the sub-stages the current call has been through, in the order of the code
StagesDone ==
    IF pa.pos = "brightfield" THEN << >>
    ELSE IF pa.pos = "smoothing" THEN <<"brightfield">>
    ELSE IF pa.pos = "registration" THEN <<"brightfield", "smoothing">>
    ELSE <<"brightfield", "smoothing", "registration">>

CriterionParams(c) ==
    IF c = "blur" THEN pf.blur_params
    ELSE IF c = "temperature" THEN pf.temperature_params
    ELSE pf.low_contrast_params

\* the value criterion c returns when its check runs to its end
CriterionValue(c) ==
    IF c = "blur" THEN BlurValue
    ELSE IF c = "temperature" THEN TemperatureValue
    ELSE ContrastValue

\* C31: preprocessing_filters never raises: a criterion (blur, temperature,
\* low contrast) whose parameters are None or whose check raises counts as
\* passed, and the value returned is true exactly when every criterion whose
\* check ran to its end returned true.
C31_FiltersNeverRaise ==
    pf.pos # "none" =>
        /\ pf.err = "none"
        /\ pf.pos # "raised"
        /\ pf.pos = "returned" =>
              (pf.ret = 1 <=>
                  \A c \in Criteria :
                      ~CriterionRaises(c, CriterionParams(c)) => CriterionValue(c) = 1)

\* the image of input file f could not be loaded by io.imread
Misloaded(f) == fate[f] \in {"misload_ok", "misload_degraded"}

\* C32: in preprocessing_filter_loop, an input image that cannot be loaded
\* is never written to the pass location, whatever filters are configured:
\* no file is at the pass path of such an item, and when the item has
\* written its placeholder, the file is in the failure bucket under the
\* MISLOAD-prefixed name.
C32_MisloadOnlyInFailureBucket ==
    arg.loop = "filter" =>
        \A f \in Matching :
            Misloaded(f) =>
                /\ Norm(PathOutPASS(arg.loop, ItemOf(f))) \notin files
                /\ hist.outcome[f] \in {"success", "degraded"} =>
                      Norm(PathOutMISLOAD(arg.loop, ItemOf(f))) \in files

\* the paths the failure artifact of input file f can have
FailureArtifacts(loop, f) ==
    {Norm(PathOutFAIL(loop, ItemOf(f)))} \cup
    (IF loop = "filter" THEN {Norm(PathOutMISLOAD(loop, ItemOf(f)))} ELSE {})

\* C33: once an item has produced an artifact in the failure bucket in some
\* call, every later call over the unchanged tree skips the item: in a call
\* that found the failure artifact of an item on disk, the item is not
\* processed again and the call writes no artifact for it.
C33_FailureIsPermanent ==
    (arg.loop \in {"filter", "actions"} /\ run > 1) =>
        \A f \in Matching :
            FailureArtifacts(arg.loop, f) \cap snap.files # {} =>
                /\ hist.outcome[f] \in {"none", "skipped"}
                /\ ~InFlight(f)
                /\ \A k \in 1..Len(hist.written) :
                      Norm(hist.written[k]) \notin
                          FailureArtifacts(arg.loop, f) \cup {Norm(PathOutPASS(arg.loop, ItemOf(f)))}

\* the values of the parameter names the loop lists in `dicts`
EffectiveConfig(loop, g) ==
    IF loop = "actions" THEN [mbp |-> g.mbp, act |-> g.act] ELSE [db |-> g.db, seg |-> g.seg]

\* the configuration the parameters file of kind p gives on its own: the
\* names it defines, and the default of the loop for every other listed name
ConfigOfFile(loop, p) == EffectiveConfig(loop, DefaultParams(loop, ExecParams(loop, p, FreshGlobals)))

\* C34: the effective configuration of a call of pyroots_batch_loop,
\* frangi_image_loop or preprocessing_actions_loop is determined by the
\* parameters file of that call alone: once the parameters are loaded, every
\* listed name the file does not define has the default of the loop ('skip',
\* or None in frangi_image_loop), whatever an earlier call in the same
\* process loaded.
C34_ConfigFromFileOnly ==
    (/\ arg.loop \in {"actions", "frangi", "pyroots"}
     /\ hist.stage # "config"
     /\ arg.loop \in SegLoops => arg.params # "none") =>
        EffectiveConfig(arg.loop, glob) = ConfigOfFile(arg.loop, arg.params)

\* the workers that are executing _core_fn
Executing == {w \in Workers : wk[w].pc # "idle"}

\* C35: at every moment of a call with threads = n (n >= 1), at most n
\* executions of _core_fn are under way, over all directories of the tree:
\* while the caller is between two directories (the pool of the last one
\* closed and joined, the next not yet started) no worker is executing, no
\* item is waiting and no result is outstanding.
C35_BoundedConcurrency ==
    /\ arg.threads >= 1 => Cardinality(Executing) <= arg.threads
    /\ pc = "walk" =>
          /\ Executing = {}
          /\ pending = << >>
          /\ excq = "none"

\* the pool of the second directory, started after the pool of the first
\* was joined, with both of its two processes executing _core_fn
C35_Witness ==
    /\ arg.loop \in DirLoops
    /\ arg.threads = 2
    /\ pc = "pool"
    /\ d = 2
    /\ hist.collected >= 1
    /\ \A w \in Workers : Processing(w)

\* the items handed to the pool of the current directory and not yet
\* completed: waiting in the iterable or in the chunk of a worker
ItemsOut ==
    {pending[k] : k \in 1..Len(pending)} \cup
    UNION {{wk[w].q[k] : k \in 1..Len(wk[w].q)} : w \in Workers}

\* the position in the os.walk order of the directory of input file f
DirIndex(f) == CHOOSE k \in 1..Len(InputTree) : InputTree[k].path = Parent(f)

\* C36: in the per-directory loops, for any parallelism, every item of a
\* directory has completed before the first item of the next directory in
\* traversal order is handed to _core_fn; so every item that is not yet
\* completed belongs to the directory the caller is at and carries the path
\* context (path, subpath, correction image) of that directory.
C36_DirectoryBarrier ==
    (arg.loop \in DirLoops /\ ItemsOut # {}) =>
        LET w == Walk(dirs, files)
        IN  /\ d \in 1..Len(w)
            /\ \A it \in ItemsOut :
                  /\ it.path = w[d].path
                  /\ Subpath(it) = SliceFrom(w[d].path, Len(dir_in) + 1)
                  /\ (arg.loop = "actions" /\ glob.mbp = "dict") => fate[it.path] = "ok"
                  /\ PathIn(it) \in InputFiles =>
                        \A g \in InputFiles :
                            hist.handed[g] >= 1 => DirIndex(g) <= DirIndex(PathIn(it))

\* a pool of two processes working on the third directory after both items
\* of the second directory have completed
C36_Witness ==
    /\ arg.loop \in DirLoops
    /\ arg.threads = 2
    /\ pc = "pool"
    /\ d = 3
    /\ \E w \in Workers : Processing(w) /\ Head(wk[w].q).path = <<"/", "i", "/", "b">>
    /\ \A f \in Matching : DirIndex(f) = 2 => hist.outcome[f] \in {"success", "degraded", "failed"}

\* the table holds a complete row block for input file f
HasRow(f) == \E k \in 1..Len(table.rows) : table.rows[k].img = ImageName(f) /\ ~table.rows[k].torn

\* no item is in flight: no process is inside _core_fn
Quiescent == \A w \in Workers : wk[w].pc = "idle"

\* C37: in pyroots_batch_loop with save_images=True (the table is not
\* overwritten), whenever no item is in flight, every item whose output
\* artifact exists at its output path has a row in the result table; this
\* covers the state after a call interrupted at any point and the states of
\* the complete call that follows it.
C37_ArtifactImpliesRow ==
    (arg.loop = "pyroots" /\ arg.save_images /\ ~arg.overwrite /\ Quiescent) =>
        \A f \in Matching :
            Norm(PathOutPASS(arg.loop, ItemOf(f))) \in files => HasRow(f)

\* C38: in the segmentation loops, an image reported as "is not a color
\* image! Skipping..." is skipped: the segmentation function is not invoked
\* on it, the call writes no artifact for it and appends no row for it.
C38_GraySkipped ==
    arg.loop \in SegLoops =>
        \A f \in hist.reported :
            /\ f \notin hist.segmented
            /\ \A k \in 1..Len(hist.written) : hist.written[k] # PathOutPASS(arg.loop, ItemOf(f))
            /\ AppendedCount(f) = 0

\* the labels of the objects of the image whose area is greater than param
LargeObjects == {l \in 1..Len(dr.img) : dr.img[l] > dr.param}

\* C39: dirt_removal with method 'threshold' keeps exactly the pixels of the
\* connected objects whose area is greater than param and clears every
\* other object and the background, for every labelled image.
C39_ThresholdKeepsLarge ==
    dr.pos = "returned" => dr.filt = LargeObjects

=============================================================================
